---- MODULE Spec2Model ----
(***************************************************************************)
(* Model of the LangGraph orchestration in src/agent.py: the run state     *)
(* (AgentState), the six nodes, the two conditional edges and the          *)
(* generate -> execute -> route repair loop; and of the column type        *)
(* inference of src/script.py.                                             *)
(*                                                                         *)
(* Texts are sequences of one-character strings, so that the substring     *)
(* test of the router ("Error:" in result) and the prefix contract of the  *)
(* executor are different, computable predicates.                          *)
(***************************************************************************)
EXTENDS Integers, Sequences, FiniteSets, TLC

VARIABLES state, pc, calls, failures, prompt, last,
          rows, column_types, runs

vars == <<state, pc, calls, failures, prompt, last, rows, column_types, runs>>

(* The sheet rows given to infer_column_types and what it returned *)
ingestion == <<rows, column_types>>

(* The run of the graph followed by the node steps below *)
agent == <<state, pc, calls, failures, prompt, last>>

-----------------------------------------------------------------------------
(* Bounds of the model *)

MaxPad == 1
MaxRows == 3
MaxToolCalls == 2
CallCap == 10

(* The literal 7 of the retries test in decide_result_status *)
RetryLimit == 7

-----------------------------------------------------------------------------
(* Texts *)

Marker == <<"E", "r", "r", "o", "r", ":">>
PartialMarker == <<"E", "r", "r">>
(* The backquote character is written "^" *)
Fence == <<"^", "^", "^">>
FenceSql == <<"^", "^", "^", "s", "q", "l">>

RECURSIVE Pad(_, _)
Pad(c, n) == IF n = 0 THEN <<>> ELSE <<c>> \o Pad(c, n - 1)

(* Python: m in s *)
Contains(s, m) ==
    \E i \in 0..(Len(s) - Len(m)) : SubSeq(s, i + 1, i + Len(m)) = m

(* Python: s.startswith(m) *)
StartsWith(s, m) == Len(s) >= Len(m) /\ SubSeq(s, 1, Len(m)) = m

(* Python: s.strip() *)
RECURSIVE LStrip(_)
LStrip(s) == IF s # <<>> /\ Head(s) = " " THEN LStrip(Tail(s)) ELSE s

RECURSIVE RStrip(_)
RStrip(s) ==
    IF s # <<>> /\ s[Len(s)] = " " THEN RStrip(SubSeq(s, 1, Len(s) - 1)) ELSE s

Strip(s) == RStrip(LStrip(s))

(* Python: s.replace(old, ""), leftmost non-overlapping occurrences *)
RECURSIVE Remove(_, _)
Remove(s, old) ==
    IF s = <<>> THEN <<>>
    ELSE IF StartsWith(s, old) THEN Remove(SubSeq(s, Len(old) + 1, Len(s)), old)
    ELSE <<Head(s)>> \o Remove(Tail(s), old)

(* raw_query.strip().replace(FenceSql, "").replace(Fence, "").strip() *)
CleanQuery(raw) == Strip(Remove(Remove(Strip(raw), FenceSql), Fence))

-----------------------------------------------------------------------------
(* Inputs: what the caller, the model service and the SQL tool can supply *)

Questions == {<<"w">>, <<"h">>}
Histories == {<<>>, <<"m">>}
ToolNames == {"DatabaseQuery", "Conversation"}
Answers == {<<"a">>, <<"b">>}
SqlTexts == {<<"q">>, <<"q", " ", "q">>}

Spaces == {Pad(" ", n) : n \in 0..MaxPad}

(* LLM completions for the generator: SQL, optionally fenced and padded *)
RawQueries ==
    {outer \o open \o inner \o sql \o inner \o close \o outer :
        outer \in Spaces, inner \in Spaces, sql \in SqlTexts,
        open \in {<<>>, Fence, FenceSql}, close \in {<<>>, Fence}}

(* tool_calls of the classifier AI message: a list of tool names *)
ToolCallLists ==
    UNION {[1..n -> ToolNames] : n \in 0..MaxToolCalls}

(* Texts execute_query_tool can return: row payloads and error messages,   *)
(* with the marker absent, partial, at the start or embedded.              *)
ResultTexts ==
    {Pad("x", n) \o mid \o Pad("x", m) :
        n \in 0..MaxPad, m \in 0..MaxPad, mid \in {<<>>, Marker, PartialMarker}}

-----------------------------------------------------------------------------
(* AgentState: a dict; a key that was never written is absent *)

Get(s, k, d) == IF k \in DOMAIN s THEN s[k] ELSE d

(* LangGraph merges a node's returned dict into the state *)
Update(s, u) ==
    [k \in DOMAIN s \cup DOMAIN u |-> IF k \in DOMAIN u THEN u[k] ELSE s[k]]

Nodes ==
    {"classify_intent", "handle_conversation", "generate_query",
     "execute_query", "summarize_result", "handle_error"}

Bump(c, n) ==
    [c EXCEPT ![n] = IF c[n] < CallCap THEN c[n] + 1 ELSE CallCap]

(* prompt: the call to the model service made by the node that ran last,  *)
(* with the tool_calls of the reply for the classifier; NoPrompt when     *)
(* that node made none.                                                    *)
NoPrompt == [node |-> "none"]

(* column_types: empty before the call, then the one returned dict *)
NotCalled == <<>>
NoRuns == <<>>

Init ==
    /\ \E q \in Questions, h \in Histories :
           state = [question |-> q, chat_history |-> h]
    /\ pc = "classify_intent"
    /\ calls = [n \in Nodes |-> 0]
    /\ failures = 0
    /\ prompt = NoPrompt
    /\ last = [generated |-> <<>>, executed |-> <<>>, outcome |-> <<>>]
    /\ rows = <<>>
    /\ column_types = NotCalled
    /\ runs = NoRuns

retries == Get(state, "retries", 0)

-----------------------------------------------------------------------------
(* Node bodies: the dict each node returns, and the two routers *)

(* Variant: the default of an empty tool_calls is the database path *)
classify_intent_return_default_db(tool_calls) ==
    [intent |-> IF tool_calls = <<>> THEN "DatabaseQuery" ELSE tool_calls[1]]

(* Variant: the classifier also initialises the retry counter *)
classify_intent_return_init_retries(tool_calls) ==
    [intent |-> IF tool_calls = <<>> THEN "Conversation" ELSE tool_calls[1],
     retries |-> 0]

(* classify_intent_node: lines 66-72 *)
classify_intent_return(tool_calls) ==
    [intent |-> IF tool_calls = <<>> THEN "Conversation" ELSE tool_calls[1]]

(* Variant: the intent is compared with a label the classifier never     *)
(* produces                                                                *)
decide_intent_path_wrong_label(s) ==
    IF s["intent"] = "database_query" THEN "generate_query"
    ELSE "handle_conversation"

decide_intent_path(s) ==
    IF s["intent"] = "DatabaseQuery" THEN "generate_query"
    ELSE "handle_conversation"

(* Variant: the repair-mode test is a prefix test *)
repair_mode_prefix(s) == StartsWith(Get(s, "result", <<>>), Marker)

(* generate_query_node: the repair-mode test of line 127 *)
repair_mode(s) == Contains(Get(s, "result", <<>>), Marker)

(* Variant: the counter is written back without the increment *)
generate_query_return_no_increment(s, raw_query) ==
    [query |-> CleanQuery(raw_query), retries |-> Get(s, "retries", 0)]

(* Variant: the generator clears the previous result *)
generate_query_return_clears_result(s, raw_query) ==
    [query |-> CleanQuery(raw_query), retries |-> Get(s, "retries", 0) + 1,
     result |-> <<>>]

(* Variant: the default of an absent counter is 1 *)
generate_query_return_default_one(s, raw_query) ==
    [query |-> CleanQuery(raw_query), retries |-> Get(s, "retries", 1) + 1]

(* generate_query_node: lines 152-157 *)
generate_query_return(s, raw_query) ==
    [query |-> CleanQuery(raw_query), retries |-> Get(s, "retries", 0) + 1]

(* execute_query_node: lines 164-167 *)
execute_query_return(result) == [result |-> result]

(* Variant: the retries test allows one more attempt *)
decide_result_status_late(s) ==
    IF Contains(s["result"], Marker)
    THEN IF s["retries"] > RetryLimit + 1 THEN "handle_error"
         ELSE "generate_query"
    ELSE "summarize_result"

(* Variant: the retries test is >= instead of > *)
decide_result_status_early(s) ==
    IF Contains(s["result"], Marker)
    THEN IF s["retries"] >= RetryLimit THEN "handle_error"
         ELSE "generate_query"
    ELSE "summarize_result"

decide_result_status(s) ==
    IF Contains(s["result"], Marker)
    THEN IF s["retries"] > RetryLimit THEN "handle_error" ELSE "generate_query"
    ELSE "summarize_result"

(* Variant: the error text is looked up under a key no node writes *)
handle_error_reads_wrong_key(s) ==
    [node |-> "handle_error", question |-> s["question"],
     query |-> s["query"], error |-> Get(s, "error", <<"U">>)]

(* handle_error_node: the values it reads for its prompt, lines 184-186 *)
handle_error_reads(s) ==
    [node |-> "handle_error", question |-> s["question"],
     query |-> s["query"], error |-> Get(s, "result", <<"U">>)]

(* summarize_result_node: the values it reads for its prompt, lines 212-214 *)
summarize_result_reads(s) ==
    [node |-> "summarize_result", question |-> s["question"],
     query |-> s["query"], result |-> s["result"]]

(* Variant: the answer is returned under the key of the agent output *)
answer_return_wrong_key(answer) == [output |-> answer]

answer_return(answer) == [answer |-> answer]

-----------------------------------------------------------------------------
(* Graph steps: one node runs to completion, then its outgoing edge *)

classify_intent_node(tool_calls) ==
    /\ pc = "classify_intent"
    /\ prompt' = [node |-> "classify_intent", question |-> state["question"],
                  chat_history |-> Get(state, "chat_history", <<>>),
                  tool_calls |-> tool_calls]
    /\ state' = Update(state, classify_intent_return(tool_calls))
    /\ pc' = decide_intent_path(state')
    /\ calls' = Bump(calls, "classify_intent")
    /\ UNCHANGED <<failures, last>>
    /\ UNCHANGED <<ingestion, runs>>

handle_conversation_node(answer) ==
    /\ pc = "handle_conversation"
    /\ prompt' = [node |-> "handle_conversation", question |-> state["question"],
                  chat_history |-> Get(state, "chat_history", <<>>)]
    /\ state' = Update(state, answer_return(answer))
    /\ pc' = "END"
    /\ calls' = Bump(calls, "handle_conversation")
    /\ UNCHANGED <<failures, last>>
    /\ UNCHANGED <<ingestion, runs>>

generate_query_node(raw_query) ==
    /\ pc = "generate_query"
    /\ prompt' = [node |-> "generate_query", question |-> state["question"],
                  chat_history |-> Get(state, "chat_history", <<>>),
                  repair |-> repair_mode(state),
                  error |-> Get(state, "result", <<>>)]
    /\ state' = Update(state, generate_query_return(state, raw_query))
    /\ pc' = "execute_query"
    /\ calls' = Bump(calls, "generate_query")
    /\ last' = [last EXCEPT !.generated = CleanQuery(raw_query)]
    /\ UNCHANGED failures
    /\ UNCHANGED <<ingestion, runs>>

execute_query_node(result) ==
    /\ pc = "execute_query"
    /\ state' = Update(state, execute_query_return(result))
    /\ pc' = decide_result_status(state')
    /\ calls' = Bump(calls, "execute_query")
    /\ failures' = IF StartsWith(result, Marker) /\ failures < CallCap
                   THEN failures + 1 ELSE failures
    /\ last' = [last EXCEPT !.executed = state["query"], !.outcome = result]
    /\ prompt' = NoPrompt
    /\ UNCHANGED <<ingestion, runs>>

handle_error_node(answer) ==
    /\ pc = "handle_error"
    /\ prompt' = handle_error_reads(state)
    /\ state' = Update(state, answer_return(answer))
    /\ pc' = "END"
    /\ calls' = Bump(calls, "handle_error")
    /\ UNCHANGED <<failures, last>>
    /\ UNCHANGED <<ingestion, runs>>

summarize_result_node(answer) ==
    /\ pc = "summarize_result"
    /\ prompt' = summarize_result_reads(state)
    /\ state' = Update(state, answer_return(answer))
    /\ pc' = "END"
    /\ calls' = Bump(calls, "summarize_result")
    /\ UNCHANGED <<failures, last>>
    /\ UNCHANGED <<ingestion, runs>>

Next ==
    \/ \E tool_calls \in ToolCallLists : classify_intent_node(tool_calls)
    \/ \E answer \in Answers : handle_conversation_node(answer)
    \/ \E raw_query \in RawQueries : generate_query_node(raw_query)
    \/ \E result \in ResultTexts : execute_query_node(result)
    \/ \E answer \in Answers : handle_error_node(answer)
    \/ \E answer \in Answers : summarize_result_node(answer)

Spec == Init /\ [][Next]_vars

(* The graph runtime schedules the next node as soon as one returns *)
FairSpec == Spec /\ WF_vars(Next)

-----------------------------------------------------------------------------
(* src/script.py: infer_column_types.  A cell text is a sequence of        *)
(* characters; "sup2" stands for the one character SUPERSCRIPT TWO, for    *)
(* which str.isdigit() is true and which float() rejects.                  *)

DecimalChars == {"7"}
DigitChars == {"7", "sup2"}

CellTexts ==
    {<<>>, <<"7">>, <<"-", "7">>, <<"7", ".", "7">>, <<".", "7">>, <<"-">>,
     <<"a">>, <<"sup2">>, <<"7", "a">>}

(* A row is a dict; a row may lack the column *)
Column == "c"
SheetRows == {[c |-> v] : v \in CellTexts} \cup {<<>>}
RowLists == UNION {[1..n -> SheetRows] : n \in 0..MaxRows}

(* Python: s.isdigit() *)
IsDigit(s) == s # <<>> /\ \A i \in 1..Len(s) : s[i] \in DigitChars

(* The integer test of line 39 *)
MatchesInteger(value) ==
    \/ IsDigit(value)
    \/ StartsWith(value, <<"-">>) /\ IsDigit(Tail(value))

AllDecimal(s) == \A i \in 1..Len(s) : s[i] \in DecimalChars

(* Python: float(value) does not raise ValueError, for texts over the      *)
(* characters above: [-] digits [. [digits]] or [-] . digits               *)
FloatParses(value) ==
    LET u == IF StartsWith(value, <<"-">>) THEN Tail(value) ELSE value
    IN  \E k \in 0..Len(u) :
            LET whole == SubSeq(u, 1, k)
                rest == SubSeq(u, k + 1, Len(u))
            IN  /\ AllDecimal(whole)
                /\ \/ rest = <<>> /\ k > 0
                   \/ /\ rest # <<>>
                      /\ Head(rest) = "."
                      /\ AllDecimal(Tail(rest))
                      /\ k > 0 \/ Len(rest) > 1

(* str(row.get(col, '')) for each row *)
ColumnValues(rs, col) == [i \in 1..Len(rs) |-> Get(rs[i], col, <<>>)]

(* The loop over the rows, lines 33-51: the flags after the rows from i on *)
RECURSIVE ScanRows(_, _, _, _)
ScanRows(values, i, is_integer, is_real) ==
    IF i > Len(values) THEN [is_integer |-> is_integer, is_real |-> is_real]
    ELSE IF values[i] = <<>> THEN ScanRows(values, i + 1, is_integer, is_real)
    ELSE LET int1 == is_integer /\ MatchesInteger(values[i])
             real1 == IF is_real /\ ~int1 THEN FloatParses(values[i])
                      ELSE is_real
         IN  IF ~int1 /\ ~real1
             THEN [is_integer |-> int1, is_real |-> real1]
             ELSE ScanRows(values, i + 1, int1, real1)

(* Variant: a column without any non-empty value is TEXT *)
column_type_text_when_empty(values) ==
    LET flags == ScanRows(values, 1, TRUE, TRUE)
    IN  IF \A i \in 1..Len(values) : values[i] = <<>> THEN "TEXT"
        ELSE IF flags.is_integer THEN "INTEGER"
        ELSE IF flags.is_real THEN "REAL"
        ELSE "TEXT"

(* Lines 30-58 for one column *)
column_type(values) ==
    LET flags == ScanRows(values, 1, TRUE, TRUE)
    IN  IF flags.is_integer THEN "INTEGER"
        ELSE IF flags.is_real THEN "REAL"
        ELSE "TEXT"

infer_column_types(rs) ==
    IF rs = <<>> THEN <<>>
    ELSE [col \in {k \in DOMAIN rs[1] : k # ""} |->
             column_type(ColumnValues(rs, col))]

IngestInit ==
    /\ rows \in RowLists
    /\ column_types = NotCalled
    /\ state = <<>>
    /\ pc = "END"
    /\ calls = [n \in Nodes |-> 0]
    /\ failures = 0
    /\ prompt = NoPrompt
    /\ last = [generated |-> <<>>, executed |-> <<>>, outcome |-> <<>>]
    /\ runs = NoRuns

infer_column_types_call ==
    /\ column_types = NotCalled
    /\ column_types' = <<infer_column_types(rows)>>
    /\ UNCHANGED <<rows, agent, runs>>

IngestNext == infer_column_types_call

IngestSpec == IngestInit /\ [][IngestNext]_vars

-----------------------------------------------------------------------------
(* Two runs of the graph side by side, both on the database path, each     *)
(* with its own question, history, generated queries and result texts.     *)
(* At every execution the tool gives both runs the same kind of outcome:   *)
(* both an error text (marker prefix) or both a row payload.               *)

Run(s, node) == [state |-> s, pc |-> node]

BothAt(node) == runs # NoRuns /\ runs[1].pc = node /\ runs[2].pc = node

SameOutcome(r1, r2) == StartsWith(r1, Marker) = StartsWith(r2, Marker)

(* Completions for the two generators: bare and fenced SQL *)
PairRawQueries ==
    SqlTexts \cup {FenceSql \o <<" ">> \o sql \o Fence : sql \in SqlTexts}

PairInit ==
    /\ \E q1 \in Questions, q2 \in Questions, h1 \in Histories, h2 \in Histories :
           runs = <<Run([question |-> q1, chat_history |-> h1], "classify_intent"),
                    Run([question |-> q2, chat_history |-> h2], "classify_intent")>>
    /\ rows = <<>>
    /\ column_types = NotCalled
    /\ state = <<>>
    /\ pc = "END"
    /\ calls = [n \in Nodes |-> 0]
    /\ failures = 0
    /\ prompt = NoPrompt
    /\ last = [generated |-> <<>>, executed |-> <<>>, outcome |-> <<>>]

classify_step(run, tool_calls) ==
    LET s == Update(run.state, classify_intent_return(tool_calls))
    IN  Run(s, decide_intent_path(s))

generate_step(run, raw_query) ==
    Run(Update(run.state, generate_query_return(run.state, raw_query)),
        "execute_query")

execute_step(run, result) ==
    LET s == Update(run.state, execute_query_return(result))
    IN  Run(s, decide_result_status(s))

answer_step(run, answer) == Run(Update(run.state, answer_return(answer)), "END")

pair_classify ==
    /\ BothAt("classify_intent")
    /\ \E t1 \in ToolCallLists, t2 \in ToolCallLists :
           /\ classify_intent_return(t1).intent = "DatabaseQuery"
           /\ classify_intent_return(t2).intent = "DatabaseQuery"
           /\ runs' = <<classify_step(runs[1], t1), classify_step(runs[2], t2)>>
    /\ UNCHANGED <<agent, ingestion>>

pair_generate ==
    /\ BothAt("generate_query")
    /\ \E raw1 \in PairRawQueries, raw2 \in PairRawQueries :
           runs' = <<generate_step(runs[1], raw1), generate_step(runs[2], raw2)>>
    /\ UNCHANGED <<agent, ingestion>>

pair_execute ==
    /\ BothAt("execute_query")
    /\ \E r1 \in ResultTexts, r2 \in ResultTexts :
           /\ SameOutcome(r1, r2)
           /\ runs' = <<execute_step(runs[1], r1), execute_step(runs[2], r2)>>
    /\ UNCHANGED <<agent, ingestion>>

pair_answer ==
    /\ \E node \in {"summarize_result", "handle_error"} : BothAt(node)
    /\ \E a1 \in Answers, a2 \in Answers :
           runs' = <<answer_step(runs[1], a1), answer_step(runs[2], a2)>>
    /\ UNCHANGED <<agent, ingestion>>

PairNext == pair_classify \/ pair_generate \/ pair_execute \/ pair_answer

PairSpec == PairInit /\ [][PairNext]_vars

-----------------------------------------------------------------------------
(* Properties *)

MaxAttempts == RetryLimit + 1

(* The failure marker as the executor contract defines it: a prefix *)
CarriesMarker(text) == StartsWith(text, Marker)

ExecuteStep == pc = "execute_query" /\ calls'["execute_query"] # calls["execute_query"]

(* C1: whatever outcomes the executor returns, generate_query_node is      *)
(* invoked at most 8 times and retries never exceeds 8.                    *)
C1_AtMostEightGenerations ==
    calls["generate_query"] <= MaxAttempts /\ retries <= MaxAttempts

C1_Witness ==
    calls["generate_query"] = MaxAttempts /\ retries = MaxAttempts

(* C2: every run eventually reaches one of the three terminal nodes and    *)
(* then END; the repair loop cannot cycle forever.                         *)
C2_ReachesEnd ==
    <>(/\ pc = "END"
       /\ calls["handle_conversation"] + calls["summarize_result"]
            + calls["handle_error"] = 1)

C2_Witness ==
    pc = "END" /\ failures = MaxAttempts /\ calls["generate_query"] = MaxAttempts

(* C3: after an execute step whose result starts with the failure marker,  *)
(* the router goes to generate_query when retries <= 7 and to handle_error *)
(* when retries > 7; handle_error is entered at most once, leads to END,   *)
(* and no generate_query step occurs after it.                             *)
C3_FailureRouting ==
    [][/\ (ExecuteStep /\ CarriesMarker(state'["result"]))
             => pc' = IF retries' <= RetryLimit THEN "generate_query"
                      ELSE "handle_error"
       /\ pc = "handle_error"
             => calls["handle_error"] = 0 /\ calls'["handle_error"] = 1
                /\ pc' = "END"
       /\ calls["handle_error"] > 0
             => calls'["generate_query"] = calls["generate_query"]]_vars

C3_Witness ==
    /\ pc = "END"
    /\ calls["handle_error"] = 1
    /\ CarriesMarker(state["result"])
    /\ retries > RetryLimit

(* C4: after an execute step whose result does not start with the failure  *)
(* marker, the router goes to summarize_result, for every value of retries *)
(* from 1 to 8.                                                            *)
C4_SuccessAlwaysSummarized ==
    [][\A r \in 1..MaxAttempts :
          (ExecuteStep /\ retries' = r /\ ~CarriesMarker(state'["result"]))
              => pc' = "summarize_result"]_vars

(* C5: a regeneration or the failure explanation is chosen only for a      *)
(* result text that starts with "Error:"; every other text, also one that  *)
(* contains "Error:" after its first character, is summarized.             *)
C5_OnlyPrefixIsFailure ==
    (calls["execute_query"] > 0 /\ ~CarriesMarker(state["result"]))
        => pc \in {"summarize_result", "END"}

(* C6: when every execution returns a failure signal, the run performs     *)
(* exactly 8 generations and 8 executions, reaches handle_error once with  *)
(* retries = 8, never generates a 9th time, and handle_error reads the     *)
(* query of the 8th generation and the result of the 8th execution.        *)
C6_AllFailuresExhaustRetries ==
    (calls["execute_query"] > 0 /\ failures = calls["execute_query"])
        => /\ calls["generate_query"] <= MaxAttempts
           /\ pc \in {"handle_error", "END"}
                => /\ calls["generate_query"] = MaxAttempts
                   /\ calls["execute_query"] = MaxAttempts
                   /\ retries = MaxAttempts
                   /\ last.executed = last.generated
           /\ pc = "END"
                => /\ calls["handle_error"] = 1
                   /\ calls["summarize_result"] = 0
                   /\ prompt.node = "handle_error"
                   /\ prompt.query = last.generated
                   /\ prompt.error = last.outcome

C6_Witness ==
    /\ pc = "END"
    /\ failures = MaxAttempts
    /\ calls["execute_query"] = MaxAttempts
    /\ prompt.node = "handle_error"
    /\ prompt.error = Marker \o <<"x">>

(* C7: retries is absent (0) when the run starts, each generate_query step *)
(* increases it by exactly 1, and no other node changes it.                *)
C7_RetriesCountsGenerations ==
    /\ "retries" \notin DOMAIN state
    /\ [][IF pc = "generate_query" THEN retries' = retries + 1
          ELSE retries' = retries]_vars

C7_Witness ==
    pc = "execute_query" /\ retries = 3 /\ calls["generate_query"] = 3

(* C8: handle_error runs only when the most recent execution result starts *)
(* with the failure marker and retries > 7, after 8 failed attempts; never *)
(* from the conversation path or after a successful execution.             *)
C8_HandleErrorOnlyAfterFailures ==
    pc = "handle_error"
        => /\ CarriesMarker(state["result"])
           /\ retries > RetryLimit
           /\ failures = MaxAttempts
           /\ calls["handle_conversation"] = 0

(* C10: the classifier always produces an intent; an empty tool_calls      *)
(* gives Conversation; intent is written once, before the first branch     *)
(* decision, and never rewritten.                                          *)
C10_IntentSetOnce ==
    /\ "intent" \notin DOMAIN state
    /\ [][IF pc = "classify_intent"
          THEN /\ "intent" \in DOMAIN state'
               /\ state'["intent"] \in ToolNames
               /\ prompt'.tool_calls = <<>> => state'["intent"] = "Conversation"
               /\ calls["classify_intent"] = 0
               /\ pc' # "classify_intent"
          ELSE /\ state'["intent"] = state["intent"]
               /\ calls'["classify_intent"] = 1
               /\ pc' # "classify_intent"]_vars

C10_Witness ==
    /\ pc = "handle_conversation"
    /\ prompt.node = "classify_intent"
    /\ prompt.tool_calls = <<>>
    /\ state["intent"] = "Conversation"
    /\ calls["classify_intent"] = 1

TerminalNodes == {"handle_conversation", "summarize_result", "handle_error"}
DatabaseNodes ==
    {"generate_query", "execute_query", "summarize_result", "handle_error"}

(* C11: handle_conversation runs only with intent Conversation, the        *)
(* database nodes only with intent DatabaseQuery; a run takes exactly one  *)
(* of the two paths and never mixes them.                                  *)
C11_PathsAreExclusive ==
    /\ (pc = "handle_conversation" \/ calls["handle_conversation"] > 0)
          => /\ state["intent"] = "Conversation"
             /\ \A n \in DatabaseNodes : calls[n] = 0 /\ pc # n
    /\ (pc \in DatabaseNodes \/ \E n \in DatabaseNodes : calls[n] > 0)
          => /\ state["intent"] = "DatabaseQuery"
             /\ calls["handle_conversation"] = 0
    /\ pc = "END"
          => (calls["handle_conversation"] = 1) # (calls["generate_query"] > 0)

C11_Witness ==
    /\ pc = "END"
    /\ state["intent"] = "DatabaseQuery"
    /\ calls["summarize_result"] = 1
    /\ calls["handle_conversation"] = 0

(* C12: answer is written exactly once per run, only by one of the three   *)
(* terminal nodes; no node runs after it is written and every run that     *)
(* ends has answer set.                                                    *)
C12_AnswerWrittenOnceAtEnd ==
    /\ "answer" \notin DOMAIN state
    /\ [][/\ pc # "END"
           /\ "answer" \notin DOMAIN state
           /\ ("answer" \in DOMAIN state') = (pc \in TerminalNodes)
           /\ (pc' = "END") = (pc \in TerminalNodes)]_vars

C12_Witness ==
    /\ pc = "END"
    /\ calls["handle_error"] = 1
    /\ state["answer"] = <<"b">>

(* C13: a run on the conversation path leaves query, result and retries    *)
(* absent, as they were when the run started.                              *)
C13_ConversationLeavesQueryFields ==
    (pc = "handle_conversation" \/ calls["handle_conversation"] > 0)
        => DOMAIN state \cap {"query", "result", "retries"} = {}

C13_Witness ==
    /\ pc = "END"
    /\ calls["handle_conversation"] = 1
    /\ "answer" \in DOMAIN state

(* C14: a generate_query step writes only query and retries; question,     *)
(* chat_history, intent, result and answer are unchanged, so the previous  *)
(* failure text stays in result.                                           *)
C14_GenerateWritesQueryAndRetries ==
    [][pc = "generate_query"
          => /\ DOMAIN state' = DOMAIN state \cup {"query", "retries"}
             /\ \A k \in DOMAIN state \ {"query", "retries"} :
                    state'[k] = state[k]]_vars

C14_Witness ==
    /\ pc = "execute_query"
    /\ calls["generate_query"] = 2
    /\ state["result"] = Marker \o <<"x">>
    /\ state["result"] = last.outcome

(* C17: the first generate_query step is not in repair mode; every later   *)
(* one is, and its error text is the result of the execute_query step just *)
(* before it: a loop-back never produces a non-repair generation.          *)
C17_RepairModeFollowsRouter ==
    [][pc = "generate_query"
          => /\ prompt'.node = "generate_query"
             /\ prompt'.repair = (calls["generate_query"] > 0)
             /\ calls["generate_query"] > 0
                    => /\ prompt'.error = last.outcome
                       /\ calls["execute_query"] = calls["generate_query"]]_vars

C17_Witness ==
    /\ pc = "execute_query"
    /\ prompt.node = "generate_query"
    /\ prompt.repair
    /\ prompt.error = <<"x">> \o Marker

(* C18: whenever summarize_result or handle_error runs, result is the      *)
(* outcome of executing the current query; summarize_result runs only with *)
(* a result without the failure marker, handle_error only with one that    *)
(* carries it.                                                             *)
C18_TerminalReadsCurrentExecution ==
    pc \in {"summarize_result", "handle_error"}
        => /\ last.executed = state["query"]
           /\ last.outcome = state["result"]
           /\ (pc = "handle_error") = CarriesMarker(state["result"])

(* C19: one node is active at a time and generate and execute alternate:   *)
(* at every routing decision retries equals the number of generations and  *)
(* of executions so far and lies between 1 and 8.                          *)
C19_GenerateExecuteAlternate ==
    [][/\ pc \in Nodes /\ pc' \in Nodes \cup {"END"}
       /\ \A n \in Nodes : calls'[n] = calls[n] + (IF n = pc THEN 1 ELSE 0)
       /\ pc = "generate_query" => pc' = "execute_query"
       /\ pc' = "execute_query" => pc = "generate_query"
       /\ ExecuteStep
             => /\ retries' = calls'["generate_query"]
                /\ retries' = calls'["execute_query"]
                /\ retries' \in 1..MaxAttempts]_vars

C19_Witness ==
    /\ pc = "summarize_result"
    /\ retries = 1
    /\ calls["execute_query"] = 1

Inferred == column_types # NotCalled /\ Column \in DOMAIN column_types[1]

NonEmptyValues(rs) ==
    {v \in {ColumnValues(rs, Column)[i] : i \in 1..Len(rs)} : v # <<>>}

Reverse(s) == [i \in 1..Len(s) |-> s[Len(s) + 1 - i]]

(* C15: a column is INTEGER if every non-empty value matches the integer   *)
(* pattern, otherwise REAL if every non-empty value parses as a float,     *)
(* otherwise TEXT; the result does not depend on the order of the rows.    *)
C15_TypeByAllValues ==
    Inferred
        => /\ column_types[1][Column] =
                 IF \A v \in NonEmptyValues(rows) : MatchesInteger(v)
                 THEN "INTEGER"
                 ELSE IF \A v \in NonEmptyValues(rows) : FloatParses(v)
                 THEN "REAL"
                 ELSE "TEXT"
           /\ Column \in DOMAIN rows[Len(rows)]
                 => infer_column_types(Reverse(rows))[Column]
                        = column_types[1][Column]

AllEmpty == \A i \in 1..Len(rows) : Get(rows[i], Column, <<>>) = <<>>

C20_SameOutcomesSameNodes ==
    runs # NoRuns => runs[1].pc = runs[2].pc

====
